---------------------------- MODULE Spec2Model ----------------------------
(***************************************************************************)
(* US National Debt Tracker (src/app.py): the cached fetch of the debt     *)
(* series, the script run of main() and the metrics and table it derives.  *)
(*                                                                         *)
(* Amounts are floats in the program; the model keeps them as integers and *)
(* a quotient as the pair (num, den), so IEEE rounding is not modelled.    *)
(* Division by a zero float64 gives inf or nan (numpy), never an error.    *)
(* Dates are day numbers.                                                  *)
(***************************************************************************)
EXTENDS Integers, Sequences, FiniteSets, TLC

VARIABLES today, date_range, cache, df, outcome, metrics, df_display,
          network_called, response, last_key,
          returned, had_returned, prev_returned

vars == <<today, date_range, cache, df, outcome, metrics, df_display,
          network_called, response, last_key,
          returned, had_returned, prev_returned>>

(* ------------------------------ bounds -------------------------------- *)
MaxToday == 2
MaxLen == 2
MaxDate == 2
MaxAmt == 2

(* ------------------------- program constants -------------------------- *)
US_POPULATION == 335000000
LONG_WINDOW_MIN_RECORDS == 365

date_ranges == {"1 Year", "10 Years", "All Time"}
days_map == ("1 Year" :> 365) @@ ("10 Years" :> 3650) @@ ("All Time" :> 10000)

(* ------------------------------ values -------------------------------- *)
None == [kind |-> "None", num |-> 0, den |-> 1]
Float(n, d) == [kind |-> "float", num |-> n, den |-> d]
NaN == [kind |-> "nan", num |-> 0, den |-> 0]
Inf(sgn) == [kind |-> "inf", num |-> sgn, den |-> 0]

\* numpy.float64 true division of the integer-valued floats a / b
float_div(a, b) ==
  IF b # 0 THEN Float(a, b)
  ELSE IF a = 0 THEN NaN
  ELSE IF a > 0 THEN Inf(1) ELSE Inf(-1)

\* x * 100 on a float64
float_times_100(x) ==
  IF x.kind = "float" THEN Float(x.num * 100, x.den) ELSE x

(* --------------------------- upstream data ---------------------------- *)
\* an amount as the API sends it: a string, numeric or not
NumStr(v) == [isnum |-> TRUE, val |-> v]
NotANumber == [isnum |-> FALSE, val |-> 0]
Row(d, a) == [record_date |-> d, tot_pub_debt_out_amt |-> a]

RawRows(maxDate, maxAmt) ==
  {Row(d, a) : d \in 1..maxDate, a \in {NumStr(v) : v \in 0..maxAmt} \cup {NotANumber}}

DataArrays(maxLen, maxDate, maxAmt) ==
  UNION {[1..n -> RawRows(maxDate, maxAmt)] : n \in 0..maxLen}

\* long responses around the threshold of main(): one record per day 1..n,
\* sent ascending or descending, with chosen earliest (lo), second-latest
\* (mid) and latest (hi) amounts
LongArray(n, asc, lo, mid, hi) ==
  [i \in 1..n |->
     LET day == IF asc THEN i ELSE n + 1 - i
     IN Row(day, NumStr(IF day = 1 THEN lo ELSE IF day = n THEN hi
                        ELSE IF day = n - 1 THEN mid ELSE 1))]

LongArrays ==
  {LongArray(n, asc, lo, mid, hi) :
     n \in (LONG_WINDOW_MIN_RECORDS - 1)..(LONG_WINDOW_MIN_RECORDS + 1),
     asc \in BOOLEAN, lo \in {0, 1}, mid \in {0, 1}, hi \in {0, 1, 2}}

RequestFailed == [kind |-> "RequestException", data |-> <<>>]
JsonWithoutData == [kind |-> "json_without_data", data |-> <<>>]
JsonData(d) == [kind |-> "data", data |-> d]
NoCall == [kind |-> "no_call", data |-> <<>>]

\* what one requests.get can produce, for a single render cycle
NetOutcomes ==
  {RequestFailed, JsonWithoutData}
    \cup {JsonData(d) : d \in DataArrays(MaxLen, MaxDate, MaxAmt) \cup LongArrays}

\* the responses used over a whole session: every outcome class, short data
NetSession ==
  {RequestFailed, JsonWithoutData} \cup {JsonData(d) : d \in DataArrays(1, 1, 1)}

(* -------------------------- fetch_debt_data --------------------------- *)
EmptyDataFrame == <<>>

Return(frame) == [status |-> "return", df |-> frame, exc |-> "none"]
Raise(e) == [status |-> "raise", df |-> EmptyDataFrame, exc |-> e]

\* Series.astype(float) on one element
astype_float(s) == s.val

Orderings(rows, G) ==
  LET c == Cardinality(G)
  IN {[k \in 1..c |-> rows[p[k]]] :
        p \in {q \in [1..c -> G] : \A a, b \in 1..c : a # b => q[a] # q[b]}}

RECURSIVE SortRange(_, _, _)
SortRange(rows, lo, hi) ==
  IF lo = hi
  THEN Orderings(rows, {i \in DOMAIN rows : rows[i].record_date = lo})
  ELSE LET mid == (lo + hi) \div 2
       IN {h \o t : h \in SortRange(rows, mid + 1, hi), t \in SortRange(rows, lo, mid)}

\* the rows left in the order they arrived
sort_values_skipped(rows) == {rows}

\* DataFrame.sort_values(by="record_date", ascending=False): the default
\* sort is not stable, so rows of equal date come out in any order
sort_values(rows) ==
  IF rows = <<>> THEN {<<>>}
  ELSE LET hi == CHOOSE d \in {rows[i].record_date : i \in DOMAIN rows} :
                   \A j \in DOMAIN rows : rows[j].record_date <= d
           lo == CHOOSE d \in {rows[i].record_date : i \in DOMAIN rows} :
                   \A j \in DOMAIN rows : rows[j].record_date >= d
       IN SortRange(rows, lo, hi)

\* the exception left to propagate
fetch_on_RequestException_reraised == Raise("RequestException")

fetch_on_RequestException == Return(EmptyDataFrame)

fetch_on_missing_data == Return(EmptyDataFrame)

\* the body of fetch_debt_data on one network outcome: the set of results
fetch_debt_data(net) ==
  IF net.kind = "RequestException" THEN {fetch_on_RequestException}
  ELSE IF net.kind = "json_without_data" THEN {fetch_on_missing_data}
  ELSE IF net.data = <<>> THEN {Raise("KeyError")}
  ELSE IF \E i \in DOMAIN net.data : ~net.data[i].tot_pub_debt_out_amt.isnum
       THEN {Raise("ValueError")}
  ELSE {Return(s) :
          s \in sort_values([i \in DOMAIN net.data |->
                   Row(net.data[i].record_date,
                       astype_float(net.data[i].tot_pub_debt_out_amt))])}

(* ---------------------------- st.cache_data --------------------------- *)
\* a key that forgets the window size
CacheKey_without_days(date_trigger, days) == <<date_trigger, 365>>

CacheKey(date_trigger, days) == <<date_trigger, days>>
\* the argument tuples (date_trigger, days) main() can call the fetch with
Keys == {<<t, days_map[r]>> : t \in 1..MaxToday, r \in date_ranges}
NoEntry == [present |-> FALSE, df |-> EmptyDataFrame]
Entry(frame) == [present |-> TRUE, df |-> frame]
EmptyCache == [k \in Keys |-> NoEntry]

\* the memoised call: a hit replays the stored value, a miss runs the body
\* and stores whatever it returns
cached_store(cache0, key, res) ==
  IF res.status = "return" THEN [cache0 EXCEPT ![key] = Entry(res.df)] ELSE cache0

(* -------------------------------- main -------------------------------- *)
NoMetrics ==
  [delta_24h |-> None, pct_change_24h |-> None, current_debt |-> None,
   debt_per_citizen |-> None, pct_change_10y |-> None]

\* the previous record taken from the wrong end of the frame
previous_record_from_tail(frame) == frame[Len(frame)]

previous_record(frame) == frame[2]

oldest_record(frame) == frame[Len(frame)]

\* an off-by-one threshold
has_long_window_strict(frame) == Len(frame) > LONG_WINDOW_MIN_RECORDS

has_long_window(frame) == Len(frame) >= LONG_WINDOW_MIN_RECORDS

key_metrics(frame) ==
  LET latest_record == frame[1]
      current_debt == latest_record.tot_pub_debt_out_amt
      delta == current_debt - previous_record(frame).tot_pub_debt_out_amt
      debt_10y_ago == oldest_record(frame).tot_pub_debt_out_amt
  IN [delta_24h |-> IF Len(frame) >= 2 THEN Float(delta, 1) ELSE None,
      pct_change_24h |->
        IF Len(frame) >= 2
        THEN float_times_100(float_div(delta, previous_record(frame).tot_pub_debt_out_amt))
        ELSE None,
      current_debt |-> Float(current_debt, 1),
      debt_per_citizen |-> float_div(current_debt, US_POPULATION),
      pct_change_10y |->
        IF has_long_window(frame)
        THEN float_times_100(float_div(current_debt - debt_10y_ago, debt_10y_ago))
        ELSE None]

\* -Series.diff(-1) at row i of a table of n rows
daily_change(table, i) ==
  IF i < Len(table)
  THEN Float(-(table[i].tot_pub_debt_out_amt - table[i + 1].tot_pub_debt_out_amt), 1)
  ELSE NaN

display_table(frame) ==
  {[i \in DOMAIN t |->
      [record_date |-> t[i].record_date,
       tot_pub_debt_out_amt |-> t[i].tot_pub_debt_out_amt,
       daily_change |-> daily_change(t, i)]] : t \in sort_values(frame)}

\* main() after the fetch: the views one script run can end in
main_after_fetch(res) ==
  IF res.status = "raise"
  THEN {[outcome |-> res.exc, metrics |-> NoMetrics, df_display |-> <<>>]}
  ELSE IF res.df = EmptyDataFrame
  THEN {[outcome |-> "no_data", metrics |-> NoMetrics, df_display |-> <<>>]}
  ELSE {[outcome |-> "rendered", metrics |-> key_metrics(res.df), df_display |-> t] :
          t \in display_table(res.df)}

(* ------------------------------ actions ------------------------------- *)
Init ==
  /\ today = 1
  /\ date_range = "1 Year"
  /\ cache = EmptyCache
  /\ df = EmptyDataFrame
  /\ outcome = "none"
  /\ metrics = NoMetrics
  /\ df_display = <<>>
  /\ network_called = FALSE
  /\ response = NoCall
  /\ last_key = <<1, days_map["1 Year"]>>
  /\ returned = EmptyCache
  /\ had_returned = FALSE
  /\ prev_returned = EmptyDataFrame

\* one run of the script from its top with the cache cache0
ScriptRun(cache0, returned0, r, net) ==
  LET key == CacheKey(today, days_map[r])
      args == <<today, days_map[r]>>
      hit == cache0[key].present
  IN \E res \in (IF hit THEN {Return(cache0[key].df)} ELSE fetch_debt_data(net)) :
       \E view \in main_after_fetch(res) :
         /\ date_range' = r
         /\ cache' = IF hit THEN cache0 ELSE cached_store(cache0, key, res)
         /\ df' = res.df
         /\ outcome' = view.outcome
         /\ metrics' = view.metrics
         /\ df_display' = view.df_display
         /\ network_called' = ~hit
         /\ response' = IF hit THEN NoCall ELSE net
         /\ last_key' = args
         /\ returned' = IF res.status = "return"
                        THEN [returned0 EXCEPT ![args] = Entry(res.df)]
                        ELSE returned0
         /\ had_returned' = returned0[args].present
         /\ prev_returned' = returned0[args].df
         /\ today' = today

\* the page is loaded, or a widget changes: the script reruns
Rerun ==
  \E r \in date_ranges, net \in NetSession :
    /\ outcome = "none" => r = date_range
    /\ ScriptRun(cache, returned, r, net)

\* the Refresh Data button: st.cache_data.clear(), then st.rerun()
RefreshData ==
  \E net \in NetSession :
    /\ outcome # "none"
    /\ ScriptRun(EmptyCache, EmptyCache, date_range, net)

\* midnight: entries written before the day that ends are older than 24h
DayPasses ==
  /\ today < MaxToday
  /\ today' = today + 1
  /\ cache' = [k \in Keys |-> IF k[1] < today THEN NoEntry ELSE cache[k]]
  /\ returned' = [k \in Keys |-> IF k[1] < today THEN NoEntry ELSE returned[k]]
  /\ UNCHANGED <<date_range, df, outcome, metrics, df_display, network_called,
                 response, last_key, had_returned, prev_returned>>

\* an entry written yesterday reaches its ttl of 24h
TTLExpire ==
  \E k \in Keys :
    /\ cache[k].present
    /\ k[1] < today
    /\ cache' = [cache EXCEPT ![k] = NoEntry]
    /\ returned' = [returned EXCEPT ![k] = NoEntry]
    /\ UNCHANGED <<today, date_range, df, outcome, metrics, df_display,
                   network_called, response, last_key, had_returned, prev_returned>>

Next == Rerun \/ RefreshData \/ DayPasses \/ TTLExpire

Spec == Init /\ [][Next]_vars

\* a single render cycle on any network outcome
RenderOnce ==
  \E net \in NetOutcomes :
    /\ outcome = "none"
    /\ ScriptRun(cache, returned, date_range, net)

NextRender == RenderOnce

SpecRender == Init /\ [][NextRender]_vars

(* ------------------------------ claims -------------------------------- *)
amt(frame, i) == frame[i].tot_pub_debt_out_amt
FetchSucceeded == network_called /\ response.kind = "data" /\ outcome = "rendered"
HasDuplicateDates(rows) ==
  Cardinality({rows[i].record_date : i \in DOMAIN rows}) < Len(rows)
Occurrences(rows, d, a) ==
  Cardinality({i \in DOMAIN rows : rows[i].record_date = d /\ rows[i].tot_pub_debt_out_amt = a})

C2_NetworkIffNotReturned ==
  outcome # "none" =>
    /\ network_called <=> ~had_returned
    /\ ~network_called => df = prev_returned /\ outcome \in {"no_data", "rendered"}

C2_Witness ==
  /\ ~network_called
  /\ had_returned
  /\ outcome = "rendered"
  /\ today = 2
  /\ date_range = "10 Years"

\* C3: a fetch that fails (transport or HTTP error, or a payload without the
\* data key) leaves the cache without an entry for its key.
C3_FailedFetchNotCached ==
  (network_called /\ response.kind \in {"RequestException", "json_without_data"})
    => ~cache[last_key].present

\* C4: a response with a non-numeric amount ends the fetch with an empty
\* series and the render cycle in the no-data state, never in an uncaught
\* exception.
C4_ParseErrorIsNoData ==
  (/\ network_called
   /\ response.kind = "data"
   /\ \E i \in DOMAIN response.data : ~response.data[i].tot_pub_debt_out_amt.isnum)
    => outcome = "no_data" /\ df = EmptyDataFrame

\* C5: when the network call fails or the JSON has no data key, the fetch
\* returns an empty series and the render cycle ends in the no-data state
\* with no metric computed.
C5_FailureIsNoData ==
  (network_called /\ response.kind \in {"RequestException", "json_without_data"})
    => /\ df = EmptyDataFrame
       /\ outcome = "no_data"
       /\ metrics = NoMetrics
       /\ df_display = <<>>

C5_Witness ==
  /\ network_called
  /\ response.kind = "RequestException"
  /\ outcome = "no_data"
  /\ date_range = "All Time"

\* C6: a derived field whose denominator is zero is null, and no infinity or
\* NaN reaches the metrics.
C6_ZeroDenominatorIsNull ==
  outcome = "rendered" =>
    /\ (Len(df) >= 2 /\ amt(df, 2) = 0) => metrics.pct_change_24h = None
    /\ amt(df, Len(df)) = 0 => metrics.pct_change_10y = None
    /\ \A f \in DOMAIN metrics : metrics[f].kind \notin {"inf", "nan"}

\* C7: with at least 2 records delta_since_previous is the latest value minus
\* the second-most-recent one and pct_change_since_previous is that delta over
\* the second-most-recent value times 100 (the float64 quotient); with exactly
\* 1 record both are null, pct_change_over_window is null and per_capita is
\* not.
C7_DeltaAndPct ==
  outcome = "rendered" =>
    IF Len(df) >= 2
    THEN /\ metrics.delta_24h = Float(amt(df, 1) - amt(df, 2), 1)
         /\ amt(df, 2) # 0 =>
              /\ metrics.pct_change_24h.kind = "float"
              /\ metrics.pct_change_24h.num * amt(df, 2)
                   = (amt(df, 1) - amt(df, 2)) * 100 * metrics.pct_change_24h.den
         /\ amt(df, 2) = 0 => metrics.pct_change_24h.kind \in {"inf", "nan"}
    ELSE /\ metrics.delta_24h = None
         /\ metrics.pct_change_24h = None
         /\ metrics.pct_change_10y = None
         /\ metrics.debt_per_citizen.kind = "float"
         /\ metrics.debt_per_citizen.num = amt(df, 1)
         /\ metrics.debt_per_citizen.den = US_POPULATION

C7_Witness ==
  /\ outcome = "rendered"
  /\ Len(df) >= 3
  /\ amt(df, 1) > amt(df, 2)
  /\ amt(df, 2) > 0
  /\ amt(df, Len(df)) # amt(df, 2)
  /\ metrics.pct_change_24h = Float(100, 1)

\* C8: pct_change_over_window is non-null exactly when the series has at
\* least 365 records, and then it is (latest - earliest) over earliest times
\* 100, earliest being the value of the record of the smallest date held.
C8_LongWindow ==
  outcome = "rendered" =>
    /\ metrics.pct_change_10y # None <=> Len(df) >= LONG_WINDOW_MIN_RECORDS
    /\ Len(df) >= LONG_WINDOW_MIN_RECORDS =>
         \E e \in DOMAIN df :
           /\ \A j \in DOMAIN df : df[j].record_date >= df[e].record_date
           /\ amt(df, e) # 0 =>
                /\ metrics.pct_change_10y.kind = "float"
                /\ metrics.pct_change_10y.num * amt(df, e)
                     = (amt(df, 1) - amt(df, e)) * 100 * metrics.pct_change_10y.den
           /\ amt(df, e) = 0 => metrics.pct_change_10y.kind \in {"inf", "nan"}

C8_Witness ==
  /\ outcome = "rendered"
  /\ Len(df) = LONG_WINDOW_MIN_RECORDS
  /\ response.data[1].record_date = 1
  /\ amt(df, Len(df)) = 1
  /\ amt(df, 1) = 2
  /\ amt(df, 2) = 0
  /\ metrics.pct_change_10y = Float(100, 1)

\* C9: in the display table daily_change of row i is value[i] - value[i+1],
\* the last row has none, and the fetched series has no daily_change column.
C9_DailyChange ==
  outcome = "rendered" =>
    /\ \A i \in 1..(Len(df_display) - 1) :
         df_display[i].daily_change = Float(amt(df_display, i) - amt(df_display, i + 1), 1)
    /\ df_display[Len(df_display)].daily_change = NaN
    /\ \A i \in DOMAIN df : DOMAIN df[i] = {"record_date", "tot_pub_debt_out_amt"}

\* C10: a successful call whose data array is empty gives an empty series and
\* the no-data state, with no uncaught exception and no metric computed.
C10_EmptyDataIsNoData ==
  (network_called /\ response.kind = "data" /\ response.data = <<>>)
    => /\ outcome = "no_data"
       /\ df = EmptyDataFrame
       /\ metrics = NoMetrics

=============================================================================
